---- MODULE Spec2Model ----
(***************************************************************************)
(* Model of parsing/lex_podcast.py: the field resolvers, the audio         *)
(* locator, the episode assembler (parse_the_data) and the batch collector *)
(* (main), with the network, the HTML pages and the YouTube API as         *)
(* nondeterministic inputs.                                                *)
(*                                                                         *)
(* Python values are records [type, s, n]: s holds the characters of a     *)
(* str, n the number of a float/int/date/time.  A str is a sequence of     *)
(* one-character strings; a longer literal inside such a sequence (a URL   *)
(* stem, the word "Please") abbreviates a fixed run of characters that     *)
(* the code never splits.                                                  *)
(* A call's outcome is a record [kind, val, exc, net]: kind is "return"    *)
(* or "raise", exc the exception class, net the URLs requested, in order.  *)
(***************************************************************************)
EXTENDS Integers, Sequences, FiniteSets, TLC

VARIABLES
    key,          \* the module-level api key, os.getenv("api_key")
    pc,           \* where main() stands
    index_fetch,  \* the outcome of the index-page request of get_data
    episodes,     \* what get_data returned
    idx,          \* the next entry the map inside set() hands to parse_the_data
    data_list,    \* the set under construction
    produced,     \* the records parse_the_data returned so far, in order
    csv_rows,     \* the rows written to the csv file, header included
    crash,        \* the exception that ended main(), "" if none
    call          \* the last call of a function: its arguments and its outcome

vars == <<key, pc, index_fetch, episodes, idx, data_list, produced, csv_rows, crash, call>>

(***************************************************************************)
(* Python values                                                           *)
(***************************************************************************)
PyNone == [type |-> "NoneType", s |-> <<>>, n |-> 0]

PyStr(chars) == [type |-> "str", s |-> chars, n |-> 0]

PyFloat(x) == [type |-> "float", s |-> <<>>, n |-> x]

PyInt(x) == [type |-> "int", s |-> <<>>, n |-> x]

isinstance_str(v) == v.type = "str"

Return(v, net) == [kind |-> "return", val |-> v, exc |-> "", net |-> net]

Raise(e, net) == [kind |-> "raise", val |-> PyNone, exc |-> e, net |-> net]

(***************************************************************************)
(* str methods                                                             *)
(***************************************************************************)
UpperCase ==
    <<"A", "B", "C", "D", "E", "F", "G", "H", "I", "J", "K", "L", "M",
      "N", "O", "P", "Q", "R", "S", "T", "U", "V", "W", "X", "Y", "Z">>

LowerCase ==
    <<"a", "b", "c", "d", "e", "f", "g", "h", "i", "j", "k", "l", "m",
      "n", "o", "p", "q", "r", "s", "t", "u", "v", "w", "x", "y", "z">>

Digits == {"0", "1", "2", "3", "4", "5", "6", "7", "8", "9"}

Range(f) == {f[i] : i \in DOMAIN f}

\* str.lower(), character by character
lower_char(c) ==
    IF \E i \in DOMAIN UpperCase : UpperCase[i] = c
    THEN LowerCase[CHOOSE i \in DOMAIN UpperCase : UpperCase[i] = c]
    ELSE c

lower(chars) == [i \in DOMAIN chars |-> lower_char(chars[i])]

\* str.endswith(suffix)
endswith(chars, suffix) ==
    /\ Len(chars) >= Len(suffix)
    /\ SubSeq(chars, Len(chars) - Len(suffix) + 1, Len(chars)) = suffix

\* the positions (1-based) at which sub occurs in chars
Occurrences(chars, sub) ==
    {i \in 1..(Len(chars) - Len(sub) + 1) : SubSeq(chars, i, i + Len(sub) - 1) = sub}

\* sub in chars
contains(chars, sub) == Occurrences(chars, sub) # {}

Min(S) == CHOOSE x \in S : \A y \in S : x <= y

\* all sequences over S of length 0..n
SeqsUpTo(S, n) == UNION {[1..k -> S] : k \in 0..n}

(***************************************************************************)
(* HTTP outcomes of requests.get: the call raises a RequestException       *)
(* (connection error, timeout), or returns a response with a status code   *)
(* and a body.                                                             *)
(***************************************************************************)
NoBody == [kind |-> "none"]

NetError == [raises |-> TRUE, status |-> 0, body |-> NoBody]

Http(code, body) == [raises |-> FALSE, status |-> code, body |-> body]

\* attributes of a Python int; response.status_code is one
int_attributes == {"real", "imag", "numerator", "denominator"}

(***************************************************************************)
(* get_youtube_id                                                          *)
(***************************************************************************)
\* the regular expression class [\w-]
IsIdChar(c) == c \in Range(UpperCase) \cup Range(LowerCase) \cup Digits \cup {"_", "-"}

\* re.search(r"(?<=v=)[\w-]+", chars): the leftmost position preceded by
\* "v=" that holds an identifier character, extended greedily
MatchStarts(chars) ==
    {i \in 3..Len(chars) : chars[i - 2] = "v" /\ chars[i - 1] = "=" /\ IsIdChar(chars[i])}

MatchEnd(chars, i) ==
    CHOOSE j \in i..Len(chars) :
        /\ \A k \in i..j : IsIdChar(chars[k])
        /\ (j = Len(chars) \/ ~IsIdChar(chars[j + 1]))

\* the class written [\w]+, without the hyphen
MatchEndNoHyphen(chars, i) ==
    CHOOSE j \in i..Len(chars) :
        /\ \A k \in i..j : IsIdChar(chars[k]) /\ chars[k] # "-"
        /\ (j = Len(chars) \/ ~IsIdChar(chars[j + 1]) \/ chars[j + 1] = "-")

MatchStartsNoHyphen(chars) == {j \in MatchStarts(chars) : chars[j] # "-"}

get_youtube_id_no_hyphen(youtube_url) ==
    IF ~isinstance_str(youtube_url) THEN Return(PyNone, <<>>)
    ELSE IF MatchStartsNoHyphen(youtube_url.s) = {} THEN Return(PyNone, <<>>)
    ELSE LET i == Min(MatchStartsNoHyphen(youtube_url.s))
         IN  Return(PyStr(SubSeq(youtube_url.s, i, MatchEndNoHyphen(youtube_url.s, i))), <<>>)

get_youtube_id(youtube_url) ==
    IF ~isinstance_str(youtube_url) THEN Return(PyNone, <<>>)
    ELSE IF MatchStarts(youtube_url.s) = {} THEN Return(PyNone, <<>>)
    ELSE LET i == Min(MatchStarts(youtube_url.s))
         IN  Return(PyStr(SubSeq(youtube_url.s, i, MatchEnd(youtube_url.s, i))), <<>>)

(***************************************************************************)
(* check_url_response                                                      *)
(***************************************************************************)
\* the status of the answer not looked at
check_url_response_any_status(url, probe) ==
    IF probe.raises THEN Raise("RequestException", <<url>>)
    ELSE Return(PyStr(url), <<url>>)

check_url_response(url, probe) ==
    IF probe.raises THEN Raise("RequestException", <<url>>)
    ELSE IF probe.status = 200 THEN Return(PyStr(url), <<url>>)
    ELSE Return(PyNone, <<url>>)

(***************************************************************************)
(* get_duration                                                            *)
(***************************************************************************)
MP3_EXT == <<".", "m", "p", "3">>

\* the body of an audio response: undecodable bytes, or an MP3 whose
\* mp3.info.length is n hundredths of a second after round(.., 2)
BadBytes == [kind |-> "bytes", ok |-> FALSE, length |-> 0]

Mp3Bytes(n) == [kind |-> "bytes", ok |-> TRUE, length |-> n]

\* the extension test written endswith("mp3")
get_duration_no_dot(mp3_url, fetch) ==
    IF ~isinstance_str(mp3_url) THEN Raise("AttributeError", <<>>)
    ELSE IF ~endswith(lower(mp3_url.s), <<"m", "p", "3">>) THEN Return(PyFloat(0), <<>>)
    ELSE IF fetch.raises THEN Return(PyFloat(0), <<mp3_url.s>>)
    ELSE IF fetch.body.kind # "bytes" \/ ~fetch.body.ok THEN Return(PyFloat(0), <<mp3_url.s>>)
    ELSE Return(PyFloat(fetch.body.length), <<mp3_url.s>>)

get_duration(mp3_url, fetch) ==
    \* None.lower(): the extension test is outside the try block
    IF ~isinstance_str(mp3_url) THEN Raise("AttributeError", <<>>)
    ELSE IF ~endswith(lower(mp3_url.s), MP3_EXT) THEN Return(PyFloat(0), <<>>)
    ELSE IF fetch.raises THEN Return(PyFloat(0), <<mp3_url.s>>)
    ELSE IF fetch.body.kind # "bytes" \/ ~fetch.body.ok THEN Return(PyFloat(0), <<mp3_url.s>>)
    ELSE Return(PyFloat(fetch.body.length), <<mp3_url.s>>)

(***************************************************************************)
(* get_description                                                         *)
(***************************************************************************)
\* a detail page after BeautifulSoup: whether div.entry-content exists,
\* the texts of its <p> elements, the text of its first <span> (or None),
\* and the href of a.powerpress_link_pinw (see get_audio_file_url)
Page(div, paras, span, anchor) ==
    [kind |-> "page", div |-> div, paras |-> paras, span |-> span, anchor |-> anchor]

PLEASE_WORD == <<"Please">>

PLEASE_MARKER == <<" ", "Please", " ">>

\* lines 70-91: the try block over the parsed page
description_of_page(page, net) ==
    IF page.kind # "page" \/ ~page.div THEN Return(PyStr(<<>>), net)
    ELSE IF Len(page.paras) > 2
         THEN IF contains(page.paras[3], PLEASE_WORD)
              THEN IF ~contains(page.paras[3], PLEASE_MARKER)
                   THEN Return(PyStr(<<>>), net)
                   ELSE LET indx == Min(Occurrences(page.paras[3], PLEASE_MARKER)) - 1
                        IN  Return(PyStr(SubSeq(page.paras[3], 1, indx)), net)
              ELSE Return(PyStr(page.paras[3]), net)
         ELSE IF page.span.type = "NoneType" THEN Return(PyStr(<<>>), net)
              ELSE Return(page.span, net)

get_description(url, fetch) ==
    IF fetch.raises THEN Raise("RequestException", <<url>>)
    \* response.status_code.ok: attribute access on an int
    ELSE IF "ok" \notin int_attributes THEN Raise("AttributeError", <<url>>)
    ELSE description_of_page(fetch.body, <<url>>)

(***************************************************************************)
(* convert_to_timestamp                                                    *)
(***************************************************************************)
DigitSeq == <<"0", "1", "2", "3", "4", "5", "6", "7", "8", "9">>

DigitVal(c) == (CHOOSE i \in DOMAIN DigitSeq : DigitSeq[i] = c) - 1

IsDigits(chars) == \A i \in DOMAIN chars : chars[i] \in Digits

RECURSIVE ToNum(_)
ToNum(chars) ==
    IF Len(chars) = 0 THEN 0
    ELSE 10 * ToNum(SubSeq(chars, 1, Len(chars) - 1)) + DigitVal(chars[Len(chars)])

\* chars cut into its runs of digits, its runs of blanks and its other
\* characters one by one
RECURSIVE Tokens(_, _)
Tokens(chars, done) ==
    IF Len(chars) = 0 THEN done
    ELSE LET c == Head(chars)
             last == IF Len(done) = 0 THEN <<>> ELSE done[Len(done)]
             joins == /\ Len(last) > 0
                      /\ \/ c \in Digits /\ last[1] \in Digits
                         \/ c = " " /\ last[1] = " "
         IN  IF joins
             THEN Tokens(Tail(chars), [done EXCEPT ![Len(done)] = Append(last, c)])
             ELSE Tokens(Tail(chars), Append(done, <<c>>))

IsLeap(y) == (y % 4 = 0 /\ y % 100 # 0) \/ y % 400 = 0

DaysIn(y, m) ==
    IF m = 2 THEN (IF IsLeap(y) THEN 29 ELSE 28)
    ELSE IF m \in {4, 6, 9, 11} THEN 30 ELSE 31

NoDateTime == [ok |-> FALSE, Y |-> 0, M |-> 0, D |-> 0, h |-> 0, m |-> 0, s |-> 0]

ValidDateTime(Y, M, D, h, m, s) ==
    /\ Y >= 1 /\ M \in 1..12 /\ D >= 1 /\ D <= DaysIn(Y, M)
    /\ h \in 0..23 /\ m \in 0..59 /\ s \in 0..59

\* a field of one or two digits
ShortField(tok) == Len(tok) \in 1..2 /\ IsDigits(tok)

\* the day written as one blank and one digit from 1 to 9, which the
\* directive %d accepts beside one or two digits
PaddedDay(tk) ==
    /\ Len(tk) = 12
    /\ tk[5] = <<" ">>
    /\ Len(tk[6]) = 1 /\ tk[6][1] \in Digits \ {"0"}

\* the tokens with the blank of a padded day taken out
Unpadded(tk) ==
    IF PaddedDay(tk) THEN SubSeq(tk, 1, 4) \o SubSeq(tk, 6, 12) ELSE tk

\* the regular expression of "%Y-%m-%d %H:%M:%S" over the tokens: a 4-digit
\* year, fields of one or two digits, a run of blanks where the format
\* has its blank, nothing before or after; then the range checks
strptime_fields(tk) ==
    IF /\ Len(tk) = 11
       /\ Len(tk[1]) = 4 /\ IsDigits(tk[1])
       /\ tk[2] = <<"-">> /\ ShortField(tk[3])
       /\ tk[4] = <<"-">> /\ ShortField(tk[5])
       /\ tk[6][1] = " " /\ ShortField(tk[7])
       /\ tk[8] = <<":">> /\ ShortField(tk[9])
       /\ tk[10] = <<":">> /\ ShortField(tk[11])
       /\ ValidDateTime(ToNum(tk[1]), ToNum(tk[3]), ToNum(tk[5]),
                        ToNum(tk[7]), ToNum(tk[9]), ToNum(tk[11]))
    THEN [ok |-> TRUE, Y |-> ToNum(tk[1]), M |-> ToNum(tk[3]), D |-> ToNum(tk[5]),
          h |-> ToNum(tk[7]), m |-> ToNum(tk[9]), s |-> ToNum(tk[11])]
    ELSE NoDateTime

strptime_tokens(tk) == strptime_fields(Unpadded(tk))

\* datetime.strptime(chars, "%Y-%m-%d %H:%M:%S"); ok = FALSE stands for
\* ValueError
strptime(chars) == strptime_tokens(Tokens(chars, <<>>))

PyDate(dt) == [type |-> "date", s |-> <<>>, n |-> dt.Y * 10000 + dt.M * 100 + dt.D]

PyTime(dt) == [type |-> "time", s |-> <<>>, n |-> dt.h * 10000 + dt.m * 100 + dt.s]

\* the failure answered with the absent pair of get_date_time
timestamp_pair_absent(timestamp) ==
    IF timestamp.ok
    THEN Return(<<PyDate(timestamp), PyTime(timestamp)>>, <<>>)
    ELSE Return(<<PyNone, PyNone>>, <<>>)

timestamp_pair(timestamp) ==
    IF timestamp.ok
    THEN Return(<<PyDate(timestamp), PyTime(timestamp)>>, <<>>)
    ELSE Return(<<PyInt(0), PyInt(0)>>, <<>>)

convert_to_timestamp(date_str) ==
    IF ~isinstance_str(date_str) THEN Raise("TypeError", <<>>)
    ELSE timestamp_pair(strptime(date_str.s))

(***************************************************************************)
(* get_date_time                                                           *)
(***************************************************************************)
\* n written with at least two digits (n < 100), as %m %d %H %M %S do
TwoDigits(n) == <<DigitSeq[(n \div 10) + 1], DigitSeq[(n % 10) + 1]>>

\* n written with four digits, as %Y does
FourDigits(n) == TwoDigits(n \div 100) \o TwoDigits(n % 100)

\* upload_datetime.strftime("%Y-%m-%d %H:%M:%S")
strftime(dt) ==
    FourDigits(dt.Y) \o <<"-">> \o TwoDigits(dt.M) \o <<"-">> \o TwoDigits(dt.D)
        \o <<" ">> \o TwoDigits(dt.h) \o <<":">> \o TwoDigits(dt.m)
        \o <<":">> \o TwoDigits(dt.s)

\* upload_date.replace("Z", "+00:00")
RECURSIVE replace_Z(_)
replace_Z(chars) ==
    IF Len(chars) = 0 THEN <<>>
    ELSE (IF Head(chars) = "Z" THEN <<"+", "0", "0", ":", "0", "0">> ELSE <<Head(chars)>>)
            \o replace_Z(Tail(chars))

UTC_OFFSET == <<"+", "0", "0", ":", "0", "0">>

\* datetime.fromisoformat on "YYYY-MM-DDTHH:MM:SS+00:00", the shape the API
\* sends once Z is replaced; ok = FALSE stands for ValueError
fromisoformat(chars) ==
    LET Field(a, b) == ToNum(SubSeq(chars, a, b))
    IN  IF /\ Len(chars) = 25
           /\ IsDigits(SubSeq(chars, 1, 4)) /\ chars[5] = "-"
           /\ IsDigits(SubSeq(chars, 6, 7)) /\ chars[8] = "-"
           /\ IsDigits(SubSeq(chars, 9, 10)) /\ chars[11] = "T"
           /\ IsDigits(SubSeq(chars, 12, 13)) /\ chars[14] = ":"
           /\ IsDigits(SubSeq(chars, 15, 16)) /\ chars[17] = ":"
           /\ IsDigits(SubSeq(chars, 18, 19))
           /\ SubSeq(chars, 20, 25) = UTC_OFFSET
           /\ ValidDateTime(Field(1, 4), Field(6, 7), Field(9, 10),
                            Field(12, 13), Field(15, 16), Field(18, 19))
        THEN [ok |-> TRUE, Y |-> Field(1, 4), M |-> Field(6, 7), D |-> Field(9, 10),
              h |-> Field(12, 13), m |-> Field(15, 16), s |-> Field(18, 19)]
        ELSE NoDateTime

\* what request.execute() does: it raises HttpError, or returns a response
\* with or without the "items" key; an item holds snippet.publishedAt or
\* lacks the key
ApiError == [raises |-> TRUE, has_items |-> FALSE, items |-> <<>>]

ApiResponse(items) == [raises |-> FALSE, has_items |-> TRUE, items |-> items]

ApiNoItemsKey == [raises |-> FALSE, has_items |-> FALSE, items |-> <<>>]

ApiItem(published) == [has_published |-> TRUE, publishedAt |-> published]

ApiItemNoSnippet == [has_published |-> FALSE, publishedAt |-> <<>>]

NonePair == <<PyNone, PyNone>>

API_URL == <<"youtube/v3/videos">>

\* lines 178-181: strftime, then convert_to_timestamp
published_pair(upload_datetime) ==
    IF ~upload_datetime.ok THEN Raise("ValueError", <<API_URL>>)
    ELSE Return(convert_to_timestamp(PyStr(strftime(upload_datetime))).val, <<API_URL>>)

get_date_time(youtube_video_id, api_key, api) ==
    IF ~(isinstance_str(youtube_video_id) /\ isinstance_str(api_key))
    THEN Return(NonePair, <<>>)
    \* request.execute() stands before the try block
    ELSE IF api.raises THEN Raise("HttpError", <<API_URL>>)
    \* KeyError, IndexError
    ELSE IF ~api.has_items \/ Len(api.items) = 0 \/ ~api.items[1].has_published
    THEN Return(NonePair, <<API_URL>>)
    ELSE published_pair(fromisoformat(replace_Z(api.items[1].publishedAt)))

(***************************************************************************)
(* get_audio_file_url, get_audio_name                                      *)
(***************************************************************************)
\* soup.find("a", {"class": "powerpress_link_pinw"}): no such element, an
\* element without href, or an element with its href
NoAnchor == [present |-> FALSE, has_href |-> FALSE, href |-> <<>>]

AnchorNoHref == [present |-> TRUE, has_href |-> FALSE, href |-> <<>>]

Anchor(href) == [present |-> TRUE, has_href |-> TRUE, href |-> href]

\* the outcome res of a call made after the requests in net
After(net, res) == [res EXCEPT !.net = net \o res.net]

get_audio_file_url(podcast_url, fetch, probe) ==
    \* the except clause reads response.status_code, and response is unbound
    IF fetch.raises THEN Raise("UnboundLocalError", <<podcast_url>>)
    \* None["href"]: TypeError, caught
    ELSE IF fetch.body.kind # "page" \/ ~fetch.body.anchor.present
    THEN Return(PyNone, <<podcast_url>>)
    \* a tag without the attribute: KeyError, not caught
    ELSE IF ~fetch.body.anchor.has_href THEN Raise("KeyError", <<podcast_url>>)
    ELSE After(<<podcast_url>>, check_url_response(fetch.body.anchor.href, probe))

THUMB_STEM == "https://lexfridman.com/files/thumbs_ai_podcast/"

PNG_EXT == <<".", "p", "n", "g">>

BLUBRRY_STEM == "https://content.blubrry.com/takeituneasy/"

prefixes == <<"lex_ai", "mit_ai", "lex_audio">>

\* re.search(pattern, thumbnail_url) with
\* pattern = ^https://lexfridman.com/files/thumbs_ai_podcast/(.*)\.png$
thumbnail_matches(chars) ==
    Len(chars) >= 1 + Len(PNG_EXT) /\ chars[1] = THUMB_STEM /\ endswith(chars, PNG_EXT)

\* match.group(1)
thumbnail_file_name(chars) == SubSeq(chars, 2, Len(chars) - Len(PNG_EXT))

candidate_url(prefix, file_name) ==
    <<BLUBRRY_STEM, prefix, "_">> \o file_name \o MP3_EXT

\* the for loop over prefixes from position k on; probes[k] is what the
\* request for the k-th candidate does
RECURSIVE probe_candidates(_, _, _, _)
\* one pass of the loop without its return: the answer of the probe is
\* dropped and the loop goes on
probe_candidate_no_return(file_name, k, podcast_url, env, checked) ==
    IF checked.kind = "raise" THEN checked
    ELSE After(checked.net, probe_candidates(file_name, k + 1, podcast_url, env))

\* one pass of the loop, checked being what check_url_response gave
probe_candidate(file_name, k, podcast_url, env, checked) ==
    IF checked.kind = "raise" THEN checked
    ELSE IF checked.val.type # "NoneType"
    THEN Return(PyStr(candidate_url(prefixes[k], file_name)), checked.net)
    ELSE After(checked.net, probe_candidates(file_name, k + 1, podcast_url, env))

probe_candidates(file_name, k, podcast_url, env) ==
    IF k > Len(prefixes)
    THEN get_audio_file_url(podcast_url, env.page, env.final)
    ELSE probe_candidate(file_name, k, podcast_url, env,
            check_url_response(candidate_url(prefixes[k], file_name), env.probes[k]))

get_audio_name(thumbnail_url, podcast_url, env) ==
    \* re.search on None
    IF ~isinstance_str(thumbnail_url) THEN Raise("TypeError", <<>>)
    ELSE IF thumbnail_matches(thumbnail_url.s)
    THEN probe_candidates(thumbnail_file_name(thumbnail_url.s), 1, podcast_url, env)
    ELSE get_audio_file_url(podcast_url, env.page, env.final)

(***************************************************************************)
(* parse_the_data                                                          *)
(***************************************************************************)
\* a listing entry (div.guest): the hrefs of the anchors under
\* div.vid-materials, the text of .vid-title a and of .vid-person, the src
\* of .thumb-youtube img; None where the element is missing
Entry(links, title, guest, thumb) ==
    [links |-> links, title |-> title, guest |-> guest, thumb |-> thumb]

Sentinel == [i \in 1..9 |-> PyNone]

\* the outcome of the try block: trace lists the resolvers called, bound
\* tells whether the local variable title was assigned
Step(kind, val, exc, net, trace, bound) ==
    [kind |-> kind, val |-> val, exc |-> exc, net |-> net, trace |-> trace, bound |-> bound]

\* line 412 and the record, after the four resolvers before it
parse_date_time(episode, description, audio_file_url, duration, date_time) ==
    IF date_time.kind = "raise"
    THEN Step("raise", Sentinel, date_time.exc,
              description.net \o audio_file_url.net \o duration.net \o date_time.net,
              <<"get_description", "get_audio_name", "get_duration", "get_youtube_id",
                "get_date_time">>, TRUE)
    ELSE Step("return",
              <<episode.title, episode.guest, description.val, duration.val,
                PyStr(episode.links[1]), audio_file_url.val, episode.thumb,
                date_time.val[1], date_time.val[2]>>,
              "",
              description.net \o audio_file_url.net \o duration.net \o date_time.net,
              <<"get_description", "get_audio_name", "get_duration", "get_youtube_id",
                "get_date_time">>, TRUE)

\* lines 410-412
parse_duration(episode, api_key, env, description, audio_file_url, duration) ==
    IF duration.kind = "raise"
    THEN Step("raise", Sentinel, duration.exc,
              description.net \o audio_file_url.net \o duration.net,
              <<"get_description", "get_audio_name", "get_duration">>, TRUE)
    ELSE parse_date_time(episode, description, audio_file_url, duration,
            get_date_time(get_youtube_id(PyStr(episode.links[1])).val, api_key, env.api))

\* lines 409-410
parse_audio(episode, api_key, env, description, audio_file_url) ==
    IF audio_file_url.kind = "raise"
    THEN Step("raise", Sentinel, audio_file_url.exc,
              description.net \o audio_file_url.net,
              <<"get_description", "get_audio_name">>, TRUE)
    ELSE parse_duration(episode, api_key, env, description, audio_file_url,
            get_duration(audio_file_url.val, env.mp3))

\* lines 408-409 going on to get_audio_name whatever get_description did
parse_description_goes_on(episode, api_key, env, description) ==
    parse_audio(episode, api_key, env, description,
        get_audio_name(episode.thumb, episode.links[2], env.audio))

\* lines 408-409
parse_description(episode, api_key, env, description) ==
    IF description.kind = "raise"
    THEN Step("raise", Sentinel, description.exc, description.net,
              <<"get_description">>, TRUE)
    ELSE parse_audio(episode, api_key, env, description,
            get_audio_name(episode.thumb, episode.links[2], env.audio))

\* the try block, lines 402-424
parse_try(episode, api_key, env) ==
    \* unpacking fewer than two links
    IF Len(episode.links) < 2
    THEN Step("raise", Sentinel, "ValueError", <<>>, <<>>, FALSE)
    \* None.text
    ELSE IF episode.title.type = "NoneType"
    THEN Step("raise", Sentinel, "AttributeError", <<>>, <<>>, FALSE)
    ELSE IF episode.guest.type = "NoneType"
    THEN Step("raise", Sentinel, "AttributeError", <<>>, <<>>, TRUE)
    \* None["src"]
    ELSE IF episode.thumb.type = "NoneType"
    THEN Step("raise", Sentinel, "TypeError", <<>>, <<>>, TRUE)
    ELSE parse_description(episode, api_key, env,
            get_description(episode.links[2], env.desc))

\* the except clause, lines 425-427, on the outcome of the try block
parse_except(body) ==
    IF body.kind = "return" THEN body
    \* logging.error(.., error, title) reads title
    ELSE IF ~body.bound THEN [body EXCEPT !.exc = "UnboundLocalError"]
    ELSE [body EXCEPT !.kind = "return", !.exc = ""]

parse_the_data(episode, api_key, env) == parse_except(parse_try(episode, api_key, env))

(***************************************************************************)
(* get_data, save_list_to_csv                                              *)
(***************************************************************************)
INDEX_URL == <<"https://lexfridman.com/podcast/">>

\* the index page after BeautifulSoup: its div.guest elements, in order
IndexPage(entries) == [kind |-> "index", entries |-> entries]

get_data(fetch) ==
    \* the except clause reads response.status_code, and response is unbound
    IF fetch.raises THEN Raise("UnboundLocalError", <<INDEX_URL>>)
    ELSE IF fetch.body.kind # "index" THEN Return(<<>>, <<INDEX_URL>>)
    ELSE Return(fetch.body.entries, <<INDEX_URL>>)

HEADER ==
    <<"title", "guest", "description", "duration", "youtube_url",
      "audio_file_url", "thumbnail_url", "date", "time">>

\* a row of data: whether it is a tuple, and its fields
Row(is_tuple, fields) == [is_tuple |-> is_tuple, fields |-> fields]

\* the rows one pass of the for loop writes
rows_written(row) ==
    IF \A i \in DOMAIN row.fields : row.fields[i].type = "NoneType" THEN <<>>
    ELSE IF ~row.is_tuple THEN <<row.fields, row.fields>>
    ELSE <<row.fields>>

RECURSIVE data_rows(_)
data_rows(data) ==
    IF Len(data) = 0 THEN <<>> ELSE rows_written(Head(data)) \o data_rows(Tail(data))

\* the file after save_list_to_csv(data, file_name): the header, then the rows
save_list_to_csv(data) == [header |-> HEADER, rows |-> data_rows(data)]

(***************************************************************************)
(* Inputs: the arguments and the outcomes of the outside world the model   *)
(* explores                                                                *)
(***************************************************************************)
MaxPrefixLen == 3

MaxExtLen == 4

MaxParaLen == 4

MaxEntries == 2

MaxRows == 2

WATCH_STEM ==
    <<"h", "t", "t", "p", "s", ":", "/", "/", "w", "w", "w", ".", "y", "o", "u",
      "t", "u", "b", "e", ".", "c", "o", "m", "/", "w", "a", "t", "c", "h", "?">>

VideoIds ==
    {<<"a", "B", "c", "-", "e", "1", "2", "_", "4", "5", "6">>,
     <<"v", "Z", "i", "9", "-", "-", "q", "R", "s", "T", "0">>}

\* URLs that end in the marker v= and an 11-character identifier
ValidYoutubeUrls == {WATCH_STEM \o <<"v", "=">> \o id : id \in VideoIds}

YoutubeUrls ==
    ValidYoutubeUrls \cup {WATCH_STEM, WATCH_STEM \o <<"v", "=">>, <<>>}

UrlPrefixes == SeqsUpTo({"c", "v", "=", "&"}, MaxPrefixLen)

PAGE_URL == <<"https://lexfridman.com/episode/">>

AUDIO_STEM == "https://example.com/audio"

DurationArgs ==
    {PyNone}
        \cup {PyStr(<<AUDIO_STEM>> \o e) : e \in SeqsUpTo({".", "m", "M", "p", "3"}, MaxExtLen)}
        \cup {PyStr(<<AUDIO_STEM, ".", "w", "a", "v">>), PyStr(<<AUDIO_STEM, ".", "M", "P", "3">>)}

Mp3Fetches == {NetError, Http(200, BadBytes), Http(200, Mp3Bytes(1249)), Http(404, BadBytes)}

ProbeOutcomes == {NetError, Http(200, NoBody), Http(404, NoBody)}

\* the statuses a probed server answers with
StatusCodes == {200, 204, 301, 404, 500}

ParaTexts == SeqsUpTo({"x", " ", "Please"}, MaxParaLen)

SpanTexts == {PyNone, PyStr(<<"x", " ", "x">>)}

ANCHOR_HREF == <<"https://media.blubrry.com/takeituneasy/", "e", ".", "m", "p", "3">>

DescPages ==
    {Page(FALSE, <<>>, PyNone, NoAnchor)}
        \cup {Page(TRUE, paras, span, NoAnchor) :
                paras \in {<<>>, <<<<"x">>, <<"x">>>>}, span \in SpanTexts}
        \cup {Page(TRUE, <<<<"x">>, <<"x">>, third>>, PyNone, NoAnchor) : third \in ParaTexts}

DescFetches == {NetError} \cup {Http(code, page) : code \in {200, 404, 408}, page \in DescPages}

AudioPages ==
    {Page(TRUE, <<>>, PyNone, a) : a \in {NoAnchor, AnchorNoHref, Anchor(ANCHOR_HREF)}}

AudioPageFetches == {NetError} \cup {Http(200, page) : page \in AudioPages}

\* a detail page whose anchor points at the first candidate of the
\* thumbnail "e": the same URL is then probed twice
EchoPage == Page(TRUE, <<>>, PyNone, Anchor(candidate_url(prefixes[1], <<"e">>)))

AudioEnvs ==
    [probes : [1..Len(prefixes) -> ProbeOutcomes],
     page : AudioPageFetches \cup {Http(200, EchoPage)},
     final : ProbeOutcomes]

\* the audio outcomes met inside parse_the_data: every candidate answers
\* alike, or the first is missing and the second is there
ParseAudioEnvs ==
    [probes : {[k \in 1..Len(prefixes) |-> o] : o \in ProbeOutcomes}
                \cup {<<Http(404, NoBody), Http(200, NoBody), Http(404, NoBody)>>},
     page : AudioPageFetches,
     final : {Http(200, NoBody), Http(404, NoBody)}]

Thumbnails ==
    {PyNone,
     PyStr(<<THUMB_STEM, "e">> \o PNG_EXT),
     PyStr(<<THUMB_STEM, "e", ".", "j", "p", "g">>)}

PUBLISHED_AT ==
    <<"2", "0", "2", "3", "-", "0", "6", "-", "1", "5", "T",
      "1", "3", ":", "4", "5", ":", "3", "0", "Z">>

ApiOutcomes ==
    {ApiError, ApiNoItemsKey, ApiResponse(<<>>), ApiResponse(<<ApiItemNoSnippet>>),
     ApiResponse(<<ApiItem(PUBLISHED_AT)>>), ApiResponse(<<ApiItem(<<"x">>)>>)}

ApiKeys == {PyNone, PyStr(<<"k">>)}

\* what the API does with an identifier: an empty one is refused or
\* matches no video
ApiOutcomesFor(youtube_video_id) ==
    IF youtube_video_id = PyStr(<<>>) THEN {ApiError, ApiResponse(<<>>)} ELSE ApiOutcomes

VideoIdArgs == {PyNone, PyInt(12), PyStr(<<>>)} \cup {PyStr(v) : v \in VideoIds}

\* the strings given to convert_to_timestamp: the empty string, an ISO-8601
\* string with its "Z", and every string put together from one year, month,
\* day, separator, hour, minute, second and ending of the lists below
YearTexts == {<<"2", "0", "2", "2">>, <<"0", "0", "0", "0">>}

MonthTexts == {<<"1", "1">>, <<"1">>, <<"1", "3">>, <<"0", "2">>}

DayTexts == {<<"0", "4">>, <<"4">>, <<" ", "4">>, <<"3", "0">>}

GapTexts == {<<" ">>, <<" ", " ">>, <<"T">>}

HourTexts == {<<"1", "6">>, <<"6">>, <<"2", "4">>}

MinuteTexts == {<<"0", "9">>, <<"9">>}

SecondTexts == {<<"3", "2">>, <<"2">>, <<"6", "0">>}

EndTexts == {<<>>, <<"Z">>, <<" ">>}

DateStrings ==
    {<<>>, PUBLISHED_AT} \cup
    {Y \o <<"-">> \o M \o <<"-">> \o D \o gap \o h \o <<":">> \o m \o <<":">> \o s \o e :
        Y \in YearTexts, M \in MonthTexts, D \in DayTexts, gap \in GapTexts,
        h \in HourTexts, m \in MinuteTexts, s \in SecondTexts, e \in EndTexts}

ParseEnvs ==
    [desc : {NetError, Http(404, Page(FALSE, <<>>, PyNone, NoAnchor)),
             Http(200, Page(TRUE, <<<<"x">>, <<"x">>, <<"x", " ", "Please", " ">>>>,
                            PyNone, Anchor(ANCHOR_HREF)))},
     audio : ParseAudioEnvs,
     mp3 : {NetError, Http(200, BadBytes), Http(200, Mp3Bytes(1249))},
     api : {ApiError, ApiResponse(<<>>), ApiResponse(<<ApiItem(PUBLISHED_AT)>>)}]

Titles == {PyNone, PyStr(<<"t">>), PyStr(<<"u">>)}

Guests == {PyNone, PyStr(<<"g">>)}

LinkLists ==
    {<<>>, <<CHOOSE u \in ValidYoutubeUrls : TRUE>>,
     <<CHOOSE u \in ValidYoutubeUrls : TRUE, PAGE_URL>>}

AllEntries ==
    {Entry(l, t, g, th) : l \in LinkLists, t \in Titles, g \in Guests, th \in Thumbnails}

\* the entries the index page is built from: complete ones, and ones that
\* lack the second link, the title, the guest or the thumbnail
ListingEntries ==
    {e \in AllEntries :
        \/ Len(e.links) = 2 /\ e.title.type = "str" /\ e.guest.type = "str"
        \/ Len(e.links) = 1 /\ e.title = PyStr(<<"t">>) /\ e.guest.type = "str"
                /\ e.thumb.type = "str" /\ thumbnail_matches(e.thumb.s)
        \/ Len(e.links) = 2 /\ e.title.type = "NoneType" /\ e.guest.type = "str"
                /\ e.thumb.type = "str" /\ thumbnail_matches(e.thumb.s)
        \/ Len(e.links) = 2 /\ e.title = PyStr(<<"t">>) /\ e.guest.type = "NoneType"
                /\ e.thumb.type = "str" /\ thumbnail_matches(e.thumb.s)}

IndexFetches ==
    {NetError}
        \cup {Http(code, IndexPage(es)) :
                code \in {200, 404, 500}, es \in SeqsUpTo(ListingEntries, MaxEntries)}

RowKinds ==
    {Row(TRUE, Sentinel), Row(FALSE, Sentinel),
     Row(TRUE, [Sentinel EXCEPT ![1] = PyStr(<<"t">>), ![4] = PyFloat(0)]),
     Row(FALSE, [Sentinel EXCEPT ![1] = PyStr(<<"t">>), ![4] = PyFloat(0)])}

\* the orders in which a for loop may visit the set S
Orders(S) == {f \in [1..Cardinality(S) -> S] : Range(f) = S}

(***************************************************************************)
(* main(): get_data, then set(map(parse_the_data, episodes)), then         *)
(* save_list_to_csv.  An exception that leaves a call ends the run.        *)
(***************************************************************************)
NoCall == [fn |-> "none"]

NoFetch == [raises |-> FALSE, status |-> 0, body |-> NoBody]

NoFile == [header |-> <<>>, rows |-> <<>>]

Init ==
    /\ key \in ApiKeys
    /\ pc = "start"
    /\ index_fetch = NoFetch
    /\ episodes = <<>>
    /\ idx = 1
    /\ data_list = {}
    /\ produced = <<>>
    /\ csv_rows = NoFile
    /\ crash = ""
    /\ call = NoCall

\* main() once get_data(fetch) gave got
after_get_data(fetch, got) ==
    /\ index_fetch' = fetch
    /\ call' = [fn |-> "get_data", res |-> got]
    /\ IF got.kind = "raise"
       THEN /\ pc' = "crashed"
            /\ crash' = got.exc
            /\ UNCHANGED episodes
       ELSE /\ pc' = "mapping"
            /\ episodes' = got.val
            /\ UNCHANGED crash

main_get_data ==
    /\ pc = "start"
    /\ \E fetch \in IndexFetches : after_get_data(fetch, get_data(fetch))
    /\ UNCHANGED <<key, idx, data_list, produced, csv_rows>>

\* set() once parse_the_data gave got for the entry at idx
after_parse(got) ==
    /\ call' = [fn |-> "parse_the_data", episode |-> episodes[idx], res |-> got]
    /\ IF got.kind = "raise"
       THEN /\ pc' = "crashed"
            /\ crash' = got.exc
            /\ UNCHANGED <<idx, data_list, produced>>
       ELSE /\ idx' = idx + 1
            /\ data_list' = data_list \cup {got.val}
            /\ produced' = Append(produced, got.val)
            /\ UNCHANGED <<pc, crash>>

\* one step of the map that set() consumes: the next entry is parsed and
\* its record added
main_map ==
    /\ pc = "mapping"
    /\ idx <= Len(episodes)
    /\ \E env \in ParseEnvs : after_parse(parse_the_data(episodes[idx], key, env))
    /\ UNCHANGED <<key, index_fetch, episodes, csv_rows>>

\* the map is exhausted: the set is handed to save_list_to_csv
main_save ==
    /\ pc = "mapping"
    /\ idx > Len(episodes)
    /\ \E order \in Orders(data_list) :
        LET data == [i \in DOMAIN order |-> Row(TRUE, order[i])]
        IN  /\ csv_rows' = save_list_to_csv(data)
            /\ call' = [fn |-> "save_list_to_csv", data |-> data]
    /\ pc' = "done"
    /\ UNCHANGED <<key, index_fetch, episodes, idx, data_list, produced, crash>>

Next == main_get_data \/ main_map \/ main_save

Spec == Init /\ [][Next]_vars

(***************************************************************************)
(* The functions called one at a time, as the tests call them              *)
(***************************************************************************)
ResolverInit ==
    /\ key \in ApiKeys
    /\ pc = "resolvers"
    /\ index_fetch = NoFetch
    /\ episodes = <<>>
    /\ idx = 1
    /\ data_list = {}
    /\ produced = <<>>
    /\ csv_rows = NoFile
    /\ crash = ""
    /\ call = NoCall

\* a call leaves the state of main() alone; each run makes one call
MainIdle ==
    /\ pc' = "called"
    /\ UNCHANGED <<key, index_fetch, episodes, idx, data_list, produced, csv_rows, crash>>

call_get_description ==
    /\ pc = "resolvers"
    /\ \E fetch \in DescFetches :
        call' = [fn |-> "get_description", url |-> PAGE_URL, fetch |-> fetch,
                 res |-> get_description(PAGE_URL, fetch)]
    /\ MainIdle

call_get_duration ==
    /\ pc = "resolvers"
    /\ \E mp3_url \in DurationArgs, fetch \in Mp3Fetches :
        call' = [fn |-> "get_duration", mp3_url |-> mp3_url, fetch |-> fetch,
                 res |-> get_duration(mp3_url, fetch)]
    /\ MainIdle

call_get_date_time ==
    /\ pc = "resolvers"
    /\ \E youtube_video_id \in VideoIdArgs, api_key \in ApiKeys :
       \E api \in ApiOutcomesFor(youtube_video_id) :
        call' = [fn |-> "get_date_time", youtube_video_id |-> youtube_video_id,
                 api_key |-> api_key, api |-> api,
                 res |-> get_date_time(youtube_video_id, api_key, api)]
    /\ MainIdle

call_convert_to_timestamp ==
    /\ pc = "resolvers"
    /\ \E date_str \in DateStrings :
        call' = [fn |-> "convert_to_timestamp", date_str |-> date_str,
                 res |-> convert_to_timestamp(PyStr(date_str))]
    /\ MainIdle

\* the argument is a URL u behind extra characters p, or not a string
call_get_youtube_id ==
    /\ pc = "resolvers"
    /\ \E p \in UrlPrefixes, u \in YoutubeUrls, t \in {"str", "NoneType", "int"} :
        LET youtube_url ==
                IF t = "str" THEN PyStr(p \o u) ELSE IF t = "int" THEN PyInt(12) ELSE PyNone
        IN  call' = [fn |-> "get_youtube_id", p |-> p, u |-> u, youtube_url |-> youtube_url,
                     res |-> get_youtube_id(youtube_url)]
    /\ MainIdle

call_check_url_response ==
    /\ pc = "resolvers"
    /\ \E url \in {ANCHOR_HREF, PAGE_URL},
          probe \in ProbeOutcomes \cup {Http(code, NoBody) : code \in StatusCodes} :
        call' = [fn |-> "check_url_response", url |-> url, probe |-> probe,
                 res |-> check_url_response(url, probe)]
    /\ MainIdle

call_get_audio_file_url ==
    /\ pc = "resolvers"
    /\ \E fetch \in AudioPageFetches, probe \in ProbeOutcomes :
        call' = [fn |-> "get_audio_file_url", podcast_url |-> PAGE_URL, fetch |-> fetch,
                 probe |-> probe, res |-> get_audio_file_url(PAGE_URL, fetch, probe)]
    /\ MainIdle

call_get_audio_name ==
    /\ pc = "resolvers"
    /\ \E thumbnail_url \in Thumbnails, env \in AudioEnvs :
        call' = [fn |-> "get_audio_name", thumbnail_url |-> thumbnail_url,
                 podcast_url |-> PAGE_URL, env |-> env,
                 res |-> get_audio_name(thumbnail_url, PAGE_URL, env)]
    /\ MainIdle

call_parse_the_data ==
    /\ pc = "resolvers"
    /\ \E episode \in ListingEntries, env \in ParseEnvs :
        call' = [fn |-> "parse_the_data", episode |-> episode, env |-> env,
                 res |-> parse_the_data(episode, key, env)]
    /\ MainIdle

call_save_list_to_csv ==
    /\ pc = "resolvers"
    /\ \E data \in SeqsUpTo(RowKinds, MaxRows) :
        call' = [fn |-> "save_list_to_csv", data |-> data, res |-> save_list_to_csv(data)]
    /\ MainIdle

ResolverNext ==
    \/ call_get_description
    \/ call_get_duration
    \/ call_get_date_time
    \/ call_convert_to_timestamp
    \/ call_get_youtube_id
    \/ call_check_url_response
    \/ call_get_audio_file_url
    \/ call_get_audio_name
    \/ call_parse_the_data
    \/ call_save_list_to_csv

ResolverSpec == ResolverInit /\ [][ResolverNext]_vars

(***************************************************************************)
(* Properties                                                              *)
(***************************************************************************)
Called(fn) == pc = "called" /\ call.fn = fn

\* C1: parse_the_data never raises: for every listing entry and every
\* outcome of the resolvers it returns a tuple of 9 fields.
C1_ParseNeverRaises ==
    Called("parse_the_data") => call.res.kind = "return" /\ Len(call.res.val) = 9

\* C2: get_description never raises: whatever the request does, it returns
\* a str, and the empty str when the request fails or answers outside 2xx.
C2_DescriptionNeverRaises ==
    Called("get_description") =>
        /\ call.res.kind = "return"
        /\ call.res.val.type = "str"
        /\ (call.fetch.raises \/ call.fetch.status \notin 200..299 => call.res.val.s = <<>>)

\* C3: get_audio_name never raises: for every thumbnail reference and every
\* outcome of each request it returns a URL or None.
C3_AudioNameNeverRaises ==
    Called("get_audio_name") /\ call.thumbnail_url.type = "str" =>
        /\ call.res.kind = "return"
        /\ call.res.val.type \in {"str", "NoneType"}

\* the three failure classes of get_date_time
DateTimeFailure ==
    \/ ~isinstance_str(call.youtube_video_id) \/ call.youtube_video_id.s = <<>>
    \/ ~call.api.raises /\ call.api.has_items /\ call.api.items = <<>>
    \/ call.api.raises

\* C4: get_date_time returns (None, None) and does not raise when the
\* identifier is empty or no str, when the response has no item, and when
\* the API call fails.
C4_DateTimeFailuresGiveNonePair ==
    Called("get_date_time") /\ DateTimeFailure =>
        call.res.kind = "return" /\ call.res.val = NonePair

IsDuration(v) == v.type = "float" /\ v.n >= 0

\* C5: in every record parse_the_data returns and main accumulates the
\* duration is a number >= 0, never None.
C5_DurationIsNumber ==
    /\ \A record \in data_list : IsDuration(record[4])
    /\ (call.fn = "parse_the_data" /\ call.res.kind = "return" => IsDuration(call.res.val[4]))

IndexFetchFailed ==
    pc # "start" /\ (index_fetch.raises \/ index_fetch.status \notin 200..299)

\* C6: when the index request fails or answers outside 2xx, get_data yields
\* no entry, parse_the_data is called on none and no row is written.
C6_FailedIndexFetchNoRecords ==
    IndexFetchFailed =>
        /\ episodes = <<>>
        /\ call.fn # "parse_the_data"
        /\ produced = <<>>
        /\ csv_rows.rows = <<>>

\* the set holds the records returned so far, each once
AccumulatorIsSetOfProduced ==
    /\ data_list = Range(produced)
    /\ Cardinality(data_list) <= Len(produced)

MainEnded == pc = "done" \/ (pc = "crashed" /\ call.fn # "get_data")

\* C7: for every sequence of entries parse_the_data is applied to each
\* entry once, in order, and the set ends as the distinct records of all
\* entries; a record already there leaves the set as it is.
C7_EveryEntryAccumulated ==
    /\ AccumulatorIsSetOfProduced
    /\ (MainEnded => Len(produced) = Len(episodes) /\ idx = Len(episodes) + 1)

\* a reference that ends in .mp3, in any mix of cases
HasAudioExtension(chars) ==
    /\ Len(chars) >= 4
    /\ chars[Len(chars) - 3] = "."
    /\ chars[Len(chars) - 2] \in {"m", "M"}
    /\ chars[Len(chars) - 1] \in {"p", "P"}
    /\ chars[Len(chars)] = "3"

\* C8: get_duration on a reference that does not end in the audio
\* extension, whatever the case, returns 0 and requests nothing.
C8_WrongExtensionNoRequest ==
    Called("get_duration") /\ call.mp3_url.type = "str"
            /\ ~HasAudioExtension(call.mp3_url.s) =>
        call.res = Return(PyFloat(0), <<>>)

\* C8 happens: a .wav reference, a server ready to send an MP3, and yet 0
\* with no request made
C8_Witness ==
    /\ Called("get_duration")
    /\ call.mp3_url = PyStr(<<AUDIO_STEM, ".", "w", "a", "v">>)
    /\ ~call.fetch.raises /\ call.fetch.body = Mp3Bytes(1249)
    /\ call.res = Return(PyFloat(0), <<>>)

\* the last 11 characters of u
TrailingId(u) == SubSeq(u, Len(u) - 10, Len(u))

PrefixedValidUrl ==
    Called("get_youtube_id") /\ call.youtube_url.type = "str" /\ call.u \in ValidYoutubeUrls

MarkerStartsIn(p, u) ==
    \E i \in 1..Len(p) :
        /\ (p \o u)[i] = "v"
        /\ (p \o u)[i + 1] = "="
        /\ (p \o u)[i + 2] \in Range(UpperCase) \cup Range(LowerCase) \cup Digits \cup {"_", "-"}

CutAtPlease(text) ==
    IF \E i \in 1..(Len(text) - 2) : SubSeq(text, i, i + 2) = <<" ", "Please", " ">>
    THEN SubSeq(text, 1,
                (CHOOSE i \in 1..(Len(text) - 2) :
                    /\ SubSeq(text, i, i + 2) = <<" ", "Please", " ">>
                    /\ \A j \in 1..(i - 1) : SubSeq(text, j, j + 2) # <<" ", "Please", " ">>) - 1)
    ELSE text

\* C10: for a fetched page whose container holds at least three
\* paragraphs, get_description returns the third paragraph cut before
\* " Please " when it holds that marker, and unchanged when it does not.
C10_ThirdParagraphCutAtMarker ==
    Called("get_description") /\ ~call.fetch.raises /\ call.fetch.status = 200
            /\ call.fetch.body.div /\ Len(call.fetch.body.paras) >= 3 =>
        /\ call.res.kind = "return"
        /\ call.res.val = PyStr(CutAtPlease(call.fetch.body.paras[3]))

\* chars is written in the fixed-width layout "YYYY-MM-DD HH:MM:SS"
InFixedFormat(chars) ==
    /\ Len(chars) = 19
    /\ \A i \in 1..19 :
        IF i \in {5, 8} THEN chars[i] = "-"
        ELSE IF i = 11 THEN chars[i] = " "
        ELSE IF i \in {14, 17} THEN chars[i] = ":"
        ELSE chars[i] \in Digits

\* the fields of a string in the fixed-width layout
FixedFields(chars) ==
    [ok |-> TRUE,
     Y |-> ToNum(SubSeq(chars, 1, 4)), M |-> ToNum(SubSeq(chars, 6, 7)),
     D |-> ToNum(SubSeq(chars, 9, 10)), h |-> ToNum(SubSeq(chars, 12, 13)),
     m |-> ToNum(SubSeq(chars, 15, 16)), s |-> ToNum(SubSeq(chars, 18, 19))]

ZeroPair == <<PyInt(0), PyInt(0)>>

Layouts == [lm : 1..2, pad : 0..1, ld : 1..2, lh : 1..2, lmi : 1..2, ls : 1..2]

\* the width left to the run of blanks between day and hour
GapWidth(chars, L) == Len(chars) - (8 + L.lm + L.pad + L.ld + L.lh + L.lmi + L.ls)

\* the fields of chars read in the layout L; ok says that chars is a
\* 4-digit year, "-", month, "-", day, blanks, hour, ":", minute, ":",
\* second in these widths and nothing more
LayoutFields(chars, L) ==
    LET lg == GapWidth(chars, L)
        mo == 6
        da == mo + L.lm + 1 + L.pad
        ho == da + L.ld + lg
        mi == ho + L.lh + 1
        se == mi + L.lmi + 1
        Fld(from, len) == SubSeq(chars, from, from + len - 1)
    IN  IF /\ lg >= 1
           /\ IsDigits(Fld(1, 4)) /\ chars[5] = "-"
           /\ IsDigits(Fld(mo, L.lm)) /\ chars[mo + L.lm] = "-"
           /\ L.pad = 1 => /\ chars[da - 1] = " "
                           /\ L.ld = 1
                           /\ chars[da] # "0"
           /\ IsDigits(Fld(da, L.ld))
           /\ \A i \in (da + L.ld)..(ho - 1) : chars[i] = " "
           /\ IsDigits(Fld(ho, L.lh)) /\ chars[ho + L.lh] = ":"
           /\ IsDigits(Fld(mi, L.lmi)) /\ chars[mi + L.lmi] = ":"
           /\ IsDigits(Fld(se, L.ls))
        THEN [ok |-> TRUE,
              Y |-> ToNum(Fld(1, 4)), M |-> ToNum(Fld(mo, L.lm)),
              D |-> ToNum(Fld(da, L.ld)), h |-> ToNum(Fld(ho, L.lh)),
              m |-> ToNum(Fld(mi, L.lmi)), s |-> ToNum(Fld(se, L.ls))]
        ELSE NoDateTime

\* the fields name a day of the calendar and a time of the day
RealDateTime(f) ==
    /\ f.ok
    /\ f.Y \in 1..9999 /\ f.M \in 1..12
    /\ f.D \in 1..31
    /\ f.M \in {4, 6, 9, 11} => f.D <= 30
    /\ f.M = 2 => f.D <= 29
    /\ f.M = 2 /\ ~(f.Y % 4 = 0 /\ (f.Y % 100 # 0 \/ f.Y % 400 = 0)) => f.D <= 28
    /\ f.h < 24 /\ f.m < 60 /\ f.s < 60

\* the layouts in which chars names a real date and time
ReadableLayouts(chars) == {L \in Layouts : RealDateTime(LayoutFields(chars, L))}

C11_WitnessNoSuchDay ==
    /\ Called("convert_to_timestamp")
    /\ InFixedFormat(call.date_str)
    /\ call.res.val = ZeroPair

\* every field of the row is absent
AllAbsent(row) == \A i \in DOMAIN row.fields : row.fields[i].type = "NoneType"

\* the positions of the sequence rows holding the fields f
PositionsOf(rows, f) == {i \in DOMAIN rows : rows[i] = f}

\* the positions of the input rows with the fields f that are to be written
RecordsOf(data, f) == {i \in DOMAIN data : data[i].fields = f /\ ~AllAbsent(data[i])}

\* C12: save_list_to_csv writes the header once and then one row per input
\* record: a row that is not entirely absent is written exactly once,
\* whether it is a tuple or another sequence, and an entirely absent row is
\* not written.
C12_OneRowPerRecord ==
    Called("save_list_to_csv") =>
        /\ call.res.header = HEADER
        /\ \A f \in {call.data[i].fields : i \in DOMAIN call.data} \cup Range(call.res.rows) :
              Cardinality(PositionsOf(call.res.rows, f)) = Cardinality(RecordsOf(call.data, f))

\* get_audio_name was called with a thumbnail of the naming convention
MatchingThumbnailCall ==
    /\ Called("get_audio_name")
    /\ call.thumbnail_url.type = "str"
    /\ thumbnail_matches(call.thumbnail_url.s)

\* the k-th candidate of the call, in the order lex_ai, mit_ai, lex_audio
Candidate(k) ==
    <<"https://content.blubrry.com/takeituneasy/", <<"lex_ai", "mit_ai", "lex_audio">>[k], "_">>
        \o thumbnail_file_name(call.thumbnail_url.s) \o <<".", "m", "p", "3">>

\* the probe of the k-th candidate answers 200 / answers another status
ProbeSucceeds(k) == ~call.env.probes[k].raises /\ call.env.probes[k].status = 200

ProbeFails(k) == ~call.env.probes[k].raises /\ call.env.probes[k].status # 200

\* C13: with a thumbnail of the naming convention the requests of
\* get_audio_name start with the candidates in the order lex_ai, mit_ai,
\* lex_audio; the first candidate whose probe succeeds is returned and no
\* request follows its probe; the detail page is fetched only after all
\* three probes failed, and the one request after it is the probe of its
\* anchor target.
C13_CandidatesProbedInOrder ==
    MatchingThumbnailCall =>
        LET net == call.res.net
        IN  /\ Len(net) >= 1
            /\ \A i \in DOMAIN net : i <= 3 => net[i] = Candidate(i)
            /\ Len(net) <= 5
            /\ \A k \in 1..3 :
                  k <= Len(net) /\ ProbeSucceeds(k) =>
                      /\ call.res.kind = "return"
                      /\ call.res.val = PyStr(Candidate(k))
                      /\ Len(net) = k
                      /\ \A j \in 1..(k - 1) : ProbeFails(j)
            /\ Len(net) > 3 =>
                  /\ net[4] = call.podcast_url
                  /\ \A k \in 1..3 : ProbeFails(k)
            /\ Len(net) = 5 => net[5] = call.env.page.body.anchor.href

\* the fallback is entered at once when the thumbnail does not match
C13_FallbackWithoutMatch ==
    Called("get_audio_name") /\ call.thumbnail_url.type = "str"
            /\ ~thumbnail_matches(call.thumbnail_url.s) =>
        call.res.net[1] = call.podcast_url

\* C13 happens: the first probe fails, the second succeeds, the second
\* candidate is returned after two requests although the third probe and
\* the detail page would have answered too
C13_Witness ==
    /\ MatchingThumbnailCall
    /\ ProbeFails(1) /\ ProbeSucceeds(2) /\ ProbeSucceeds(3)
    /\ ~call.env.page.raises /\ call.env.page.body.anchor.present
    /\ call.res.val = PyStr(Candidate(2))
    /\ call.res.net = <<Candidate(1), Candidate(2)>>

\* C13 happens on the other side: three failed probes, then the detail page
C13_WitnessFallback ==
    /\ MatchingThumbnailCall
    /\ \A k \in 1..3 : ProbeFails(k)
    /\ Len(call.res.net) > 3

\* the number of candidate probes get_audio_name may make in the call
CandidateSlots ==
    IF call.thumbnail_url.type = "str" /\ thumbnail_matches(call.thumbnail_url.s)
    THEN 3 ELSE 0

\* the i-th request of the call is a probe of check_url_response (the one
\* after the candidates is the fetch of the detail page)
IsProbe(i) == i # CandidateSlots + 1

\* what the outside world answered to the i-th request, a probe
Outcome(i) == IF i <= CandidateSlots THEN call.env.probes[i] ELSE call.env.final

Answered200(o) == ~o.raises /\ o.status = 200

C14_WitnessProbedTwice ==
    /\ Called("get_audio_name")
    /\ CandidateSlots = 3
    /\ call.res.kind = "return"
    /\ Len(call.res.net) = 5
    /\ call.res.net[1] = call.res.net[5]
    /\ call.res.val = PyStr(call.res.net[1])

\* C14 happens in check_url_response: a status that is neither 200 nor an
\* error status, answered with None
C14_WitnessOtherStatus ==
    /\ Called("check_url_response")
    /\ ~call.probe.raises /\ call.probe.status = 204
    /\ call.res.val = PyNone

\* the resolvers in the order of their dependencies
DependencyOrder ==
    <<"get_description", "get_audio_name", "get_duration", "get_youtube_id", "get_date_time">>

\* the four fields parse_the_data takes from the entry itself are there
FieldsExtracted(episode) ==
    /\ Len(episode.links) >= 2
    /\ episode.title.type # "NoneType"
    /\ episode.guest.type # "NoneType"
    /\ episode.thumb.type # "NoneType"

\* what get_description does for the entry of the call
DescriptionOutcome == get_description(call.episode.links[2], call.env.desc)

OnlyDescriptionReached ==
    Called("parse_the_data") => Len(call.res.trace) <= 1

====
